---------------------------- MODULE Spec2Model ----------------------------
(***************************************************************************)
(* A model of the kvs crate: the log-structured engine KvStore             *)
(* (src/src/engines/kvs.rs, duplicated in src/src/lib.rs), the sled        *)
(* adapter, the engine selection of KvsServer::new and the request loop.   *)
(*                                                                         *)
(* Files are sequences of bytes (one-character strings), so offsets,       *)
(* lengths and the newline that separates records are the code's own.      *)
(***************************************************************************)
EXTENDS Integers, Sequences, FiniteSets, TLC

(***************************************************************************)
(* Bounds of the model.                                                    *)
(***************************************************************************)
\* mutating calls (set / remove) issued in one history
MaxOps == 5
\* mutating calls issued in a history in which a process crashed
MaxCrashOps == 3
\* process crashes in one history
MaxCrashes == 2
\* mutating requests (Set / Remove) the servers of one history handle
MaxRequests == 3
\* server starts (KvsServer::new) in one history
MaxStarts == 3

\* Keys and values are strings, modelled as sequences of bytes.
Keys == { <<"a">>, <<"b">> }
Values == { <<"1">>, <<"2", "2">> }

VARIABLES
    disk,      \* the data directory: kvs.log, kvs_temp.log, sled_db.log, and
               \* the unlinked inode the store's handles may still refer to
    proc,      \* "none": no KvStore instance lives; "open": one does
    store,     \* the fields of the KvStore instance (NoStore when none)
    ref,       \* reference map: the successful set/remove calls applied to a plain map
    last,      \* the last call that returned, and what it returned
    inflight,  \* the mutation a crashed process was executing
    ops,       \* number of mutating calls issued
    crashes,   \* number of crashes
    compactions, \* number of compactions that ran to their end
    srv,       \* the server process: its state and the engine it holds
    start,     \* the last call of KvsServer::new and what it did
    conn,      \* the last connection the server handled
    reqs       \* number of mutating requests handled

engineVars == <<disk, proc, store, ref, last, inflight, ops, crashes, compactions>>
serverVars == <<srv, start, conn, reqs>>
vars == <<disk, proc, store, ref, last, inflight, ops, crashes, compactions,
          srv, start, conn, reqs>>

(***************************************************************************)
(* Small helpers.                                                          *)
(***************************************************************************)
Min(a, b) == IF a < b THEN a ELSE b

None == [some |-> FALSE, v |-> <<>>]
Some(x) == [some |-> TRUE, v |-> x]

NL == "\n"
QUOTE == "\""

RECURSIVE Flatten(_)
Flatten(ss) == IF ss = <<>> THEN <<>> ELSE Head(ss) \o Flatten(Tail(ss))

\* The first n elements of a sequence.
Take(s, n) == SubSeq(s, 1, Min(n, Len(s)))

\* All orders in which a HashMap may iterate over the key set S.
Orders(S) ==
    { o \in [1..Cardinality(S) -> S] : \A i, j \in 1..Cardinality(S) : o[i] = o[j] => i = j }

(***************************************************************************)
(* Record codec: serde_json over the derived Serialize/Deserialize of      *)
(* Command (externally tagged enum, struct variants).                      *)
(***************************************************************************)
NoValue == <<>>
SetCmd(k, v) == [tag |-> "Set", key |-> k, value |-> v]
RemoveCmd(k) == [tag |-> "Remove", key |-> k, value |-> NoValue]
GetCmd(k) == [tag |-> "Get", key |-> k, value |-> NoValue]

Commands ==
    { SetCmd(k, v) : k \in Keys, v \in Values }
        \cup { RemoveCmd(k) : k \in Keys } \cup { GetCmd(k) : k \in Keys }

TagBytes(tag) ==
    CASE tag = "Set" -> <<"S", "e", "t">>
      [] tag = "Remove" -> <<"R", "e", "m", "o", "v", "e">>
      [] tag = "Get" -> <<"G", "e", "t">>

KeyField == <<"k", "e", "y">>
ValueField == <<"v", "a", "l", "u", "e">>

\* The write calls serde_json's compact formatter makes for a string:
\* the opening quote, the unescaped run, the closing quote.
StrChunks(s) == << <<QUOTE>>, s, <<QUOTE>> >>

\* The sequence of write calls serde_json::to_writer makes for a Command:
\* {"Set":{"key":"k","value":"v"}} and {"Remove":{"key":"k"}}.
Chunks(cmd) ==
    << <<"{">> >> \o StrChunks(TagBytes(cmd.tag)) \o << <<":">>, <<"{">> >>
      \o StrChunks(KeyField) \o << <<":">> >> \o StrChunks(cmd.key)
      \o (IF cmd.tag = "Set"
            THEN << <<",">> >> \o StrChunks(ValueField) \o << <<":">> >>
                   \o StrChunks(cmd.value)
            ELSE <<>>)
      \o << <<"}">>, <<"}">> >>

\* serde_json::to_writer / to_string: the bytes of a record, without newline.
Encode(cmd) == Flatten(Chunks(cmd))

IsWs(c) == c \in {NL, " ", "\t", "\r"}

RECURSIVE TrimStart(_)
TrimStart(s) == IF s # <<>> /\ IsWs(Head(s)) THEN TrimStart(Tail(s)) ELSE s

RECURSIVE TrimEnd(_)
TrimEnd(s) ==
    IF s # <<>> /\ IsWs(s[Len(s)]) THEN TrimEnd(SubSeq(s, 1, Len(s) - 1)) ELSE s

\* serde_json::from_str::<Command>: whitespace around the value is skipped,
\* anything else after it is an error ("trailing characters"); a text that
\* is not the encoding of a Command is an error.  The texts decoded are
\* cut out of a file of records the engine wrote, or are the request line
\* of a connection; a text decodes exactly when, trimmed, it is the
\* encoding of a Command.
Encoded == [c \in Commands |-> Encode(c)]

Decode(bytes) ==
    LET t == TrimEnd(TrimStart(bytes))
    IN  IF \E c \in Commands : Encoded[c] = t
          THEN [ok |-> TRUE, cmd |-> CHOOSE c \in Commands : Encoded[c] = t]
          ELSE [ok |-> FALSE, cmd |-> GetCmd(<<>>)]

(***************************************************************************)
(* Files.                                                                  *)
(***************************************************************************)
NoFile == [exists |-> FALSE, data |-> <<>>]
FileOf(bytes) == [exists |-> TRUE, data |-> bytes]

\* Index of the first newline of data, 0 when there is none.
FirstNewline(data) ==
    IF \E i \in 1..Len(data) : data[i] = NL
      THEN CHOOSE i \in 1..Len(data) : data[i] = NL /\ \A j \in 1..(i - 1) : data[j] # NL
      ELSE 0

\* BufRead::lines: the text between newlines, the newline stripped; a last
\* line without newline is a line too, and no line follows a final newline.
RECURSIVE Lines(_)
Lines(data) ==
    IF data = <<>> THEN <<>>
    ELSE LET i == FirstNewline(data)
         IN  IF i = 0 THEN <<data>>
             ELSE <<SubSeq(data, 1, i - 1)>> \o Lines(SubSeq(data, i + 1, Len(data)))

\* seek(Start(pos)) then take(len).read_to_string: the bytes [pos, pos+len),
\* cut at the end of the file.
ReadAt(data, pos, len) == SubSeq(data, pos + 1, Min(pos + len, Len(data)))

\* Writing bytes from offset 0 into a file opened without truncate and
\* without append: the bytes replace the head of the old content.
Overlay(old, bytes) == bytes \o SubSeq(old, Len(bytes) + 1, Len(old))

\* The file the store's reader and writer refer to: kvs.log, or the unlinked
\* inode when kvs.log was renamed over while the handles stayed open.
EngineData(d) == IF d.unlinked.exists THEN d.unlinked.data ELSE d.kvs_log.data

\* A write through log_writer: O_APPEND, so at the end of that file.
AppendLog(d, bytes) ==
    IF d.unlinked.exists
      THEN [d EXCEPT !.unlinked.data = @ \o bytes]
      ELSE [d EXCEPT !.kvs_log.data = @ \o bytes]

(***************************************************************************)
(* KvStore: the index and the replay of the log in open.                   *)
(***************************************************************************)
EmptyIndex == [k \in {} |-> 0]

\* struct KvStore, without its file handles (see EngineData) and its path.
NoStore ==
    [index |-> EmptyIndex, num_unnecessary_entries |-> 0, num_bytes_written |-> 0]

\* struct CommandPos
CommandPos(pos, len) == [pos |-> pos, len |-> len]

\* HashMap::insert
IndexInsert(index, key, cp) ==
    [x \in (DOMAIN index) \cup {key} |-> IF x = key THEN cp ELSE index[x]]

\* HashMap::remove
IndexRemove(index, key) == [x \in (DOMAIN index) \ {key} |-> index[x]]

\* (mutant) the newline after a record is not counted
NextOffsetNoNewline(bytes_read, cmd_len) == bytes_read + cmd_len

\* open: bytes_read += cmd_len + 1
NextOffset(bytes_read, cmd_len) == bytes_read + cmd_len + 1

\* open: the body of the loop over the lines of kvs.log.  "err" is the ?
\* on serde_json::from_str, "panic" the unreachable!() on a Get record.
ReplayLine(acc, line) ==
    LET dec == Decode(line)
        cmd_len == Len(line)
    IN  IF ~dec.ok THEN [acc EXCEPT !.status = "err"]
        ELSE IF dec.cmd.tag = "Get" THEN [acc EXCEPT !.status = "panic"]
        ELSE [status |-> "ok",
              index |->
                  IF dec.cmd.tag = "Set"
                    THEN IndexInsert(acc.index, dec.cmd.key,
                                     CommandPos(acc.bytes_read, cmd_len))
                    ELSE IndexRemove(acc.index, dec.cmd.key),
              num_unnecessary_entries |->
                  IF dec.cmd.tag = "Set" /\ dec.cmd.key \in DOMAIN acc.index
                    THEN acc.num_unnecessary_entries + 1
                    ELSE acc.num_unnecessary_entries,
              bytes_read |-> NextOffset(acc.bytes_read, cmd_len)]

RECURSIVE Replay(_, _)
Replay(lines, acc) ==
    IF lines = <<>> \/ acc.status # "ok" THEN acc
    ELSE Replay(Tail(lines), ReplayLine(acc, Head(lines)))

\* KvStore::open: creates kvs.log when absent, replays it, and returns the
\* store with the writer's counter set to bytes_read.
open(d) ==
    LET d1 == IF d.kvs_log.exists THEN d ELSE [d EXCEPT !.kvs_log = FileOf(<<>>)]
        r == Replay(Lines(d1.kvs_log.data),
                    [status |-> "ok", index |-> EmptyIndex,
                     num_unnecessary_entries |-> 0, bytes_read |-> 0])
    IN  [status |-> r.status,
         store |-> [index |-> r.index,
                    num_unnecessary_entries |-> r.num_unnecessary_entries,
                    num_bytes_written |-> r.bytes_read],
         disk |-> d1]

(***************************************************************************)
(* KvStore: get, compaction, set, remove.  Each returns the call's status  *)
(* ("ok", "err" for an Err result, "panic" for an abort of the process),  *)
(* the store and the directory it leaves.                                  *)
(***************************************************************************)
\* KvStore::get
get(st, d, key) ==
    IF key \in DOMAIN st.index
      THEN LET cp == st.index[key]
               dec == Decode(ReadAt(EngineData(d), cp.pos, cp.len))
           IN  IF ~dec.ok THEN [status |-> "err", value |-> None]
               ELSE IF dec.cmd.tag = "Set"
                      THEN [status |-> "ok", value |-> Some(dec.cmd.value)]
                      ELSE [status |-> "ok", value |-> None]
      ELSE [status |-> "ok", value |-> None]

\* COMPACTION_THRESHOLD = 0.5, as the fraction ThresholdNum / ThresholdDen
ThresholdNum == 1
ThresholdDen == 2

\* (mutant) compaction already at a ratio of one half
ShouldCompactAtHalf(st) ==
    LET n == st.num_unnecessary_entries
        l == Cardinality(DOMAIN st.index)
    IN  IF l = 0 THEN n > 0 ELSE n * ThresholdDen >= ThresholdNum * l

\* KvStore::should_compact: num_unnecessary_entries as f32 / index.len() as
\* f32 > 0.5.  With an empty index the quotient is NaN (0/0, not greater)
\* or +inf (n/0, greater).
should_compact(st) ==
    LET n == st.num_unnecessary_entries
        l == Cardinality(DOMAIN st.index)
    IN  IF l = 0 THEN n > 0 ELSE n * ThresholdDen > ThresholdNum * l

\* compact: the loop over self.index.iter(), in the order the map yields.
\* acc.writes are the write calls made on kvs_temp.log so far: those of
\* serde_json::to_writer for each record, and the newline of writeln!.
RECURSIVE CompactCopy(_, _, _, _)
CompactCopy(st, d, order, acc) ==
    IF order = <<>> \/ acc.status # "ok" THEN acc
    ELSE LET cp == st.index[Head(order)]
             dec == Decode(ReadAt(EngineData(d), cp.pos, cp.len))
         IN  IF ~dec.ok THEN [acc EXCEPT !.status = "err"]
             ELSE IF dec.cmd.tag # "Set" THEN [acc EXCEPT !.status = "panic"]
             ELSE CompactCopy(st, d, Tail(order),
                              [acc EXCEPT !.writes = @ \o Chunks(dec.cmd) \o << <<NL>> >>])

\* compact: OpenOptions::new().create(true).write(true).open(kvs_temp.log)
\* and the writes to it: no truncate, so the bytes go over an existing file.
TempAfterWrite(temp, out) == FileOf(Overlay(temp.data, out))

\* compact: fs::rename(kvs_temp.log, kvs.log).  The old kvs.log loses its
\* name; the store's handles keep it alive.
Rename(d) ==
    [d EXCEPT !.unlinked = FileOf(EngineData(d)),
              !.kvs_log = d.kvs_temp_log,
              !.kvs_temp_log = NoFile]

\* KvStore::compact
compact(st, d, order) ==
    LET copy == CompactCopy(st, d, order, [status |-> "ok", writes |-> <<>>])
        dTemp == [d EXCEPT !.kvs_temp_log =
                               TempAfterWrite(d.kvs_temp_log, Flatten(copy.writes))]
    IN  IF copy.status # "ok"
          THEN [status |-> copy.status, store |-> st, disk |-> dTemp, compacted |-> FALSE]
          ELSE LET o == open(Rename(dTemp))
               IN  IF o.status = "ok"
                     \* mem::swap, then the old store is dropped
                     THEN [status |-> "ok", store |-> o.store,
                           disk |-> [o.disk EXCEPT !.unlinked = NoFile],
                           compacted |-> TRUE]
                     ELSE [status |-> o.status, store |-> st, disk |-> o.disk,
                           compacted |-> FALSE]

\* (mutant) the entry starts where the write ended
SetCommandPosAfter(before, after) == CommandPos(after, after - before)

\* set: CommandPos { pos: before, len: after - before }
SetCommandPos(before, after) == CommandPos(before, after - before)

\* set: the counter, the append of the record and its newline, the index
\* entry; the store and directory before should_compact is asked.
SetWrite(st, d, key, value) ==
    LET rec == Encode(SetCmd(key, value))
        before == st.num_bytes_written
        after == before + Len(rec) + 1
    IN  [store |->
             [index |-> IndexInsert(st.index, key, SetCommandPos(before, after)),
              num_unnecessary_entries |->
                  IF key \in DOMAIN st.index
                    THEN st.num_unnecessary_entries + 1
                    ELSE st.num_unnecessary_entries,
              num_bytes_written |-> after],
         disk |-> AppendLog(d, rec \o <<NL>>)]

\* KvStore::set
set(st, d, key, value, order) ==
    LET w == SetWrite(st, d, key, value)
    IN  IF should_compact(w.store)
          THEN compact(w.store, w.disk, order)
          ELSE [status |-> "ok", store |-> w.store, disk |-> w.disk, compacted |-> FALSE]

\* (mutant) remove does not look the key up
RemoveAlwaysFound(g) == TRUE

\* remove: self.get(key)?.is_some()
RemoveFound(g) == g.value.some

\* (mutant) remove leaves the index entry in place
RemoveKeepsIndex(index, key) == index

\* remove: self.index.remove(&key)
RemoveFromIndex(index, key) == IndexRemove(index, key)

\* KvStore::remove
remove(st, d, key) ==
    LET g == get(st, d, key)
        rec == Encode(RemoveCmd(key))
    IN  IF g.status = "err" THEN [status |-> "err", store |-> st, disk |-> d]
        ELSE IF RemoveFound(g)
               THEN [status |-> "ok",
                     store |-> [st EXCEPT
                                  !.index = RemoveFromIndex(st.index, key),
                                  !.num_bytes_written = @ + Len(rec) + 1],
                     disk |-> AppendLog(d, rec \o <<NL>>)]
               ELSE [status |-> "KeyNotFound", store |-> st, disk |-> d]

(***************************************************************************)
(* The engine used in process: open, set, remove, get, drop.               *)
(***************************************************************************)
NoCall == [op |-> "none", key |-> <<>>, value |-> <<>>, status |-> "ok", ret |-> None]
Call(op, key, value, status, ret) ==
    [op |-> op, key |-> key, value |-> value, status |-> status, ret |-> ret]

\* No server process runs.
ServerDown == [state |-> "down", engine |-> "none"]

\* No KvsServer::new was called yet / no connection was handled yet.
NoStart ==
    [n |-> 0, requested |-> "none", existing |-> "none", opened |-> "none",
     bound |-> FALSE, result |-> "none"]
NoConn ==
    [request |-> <<>>, calls |-> <<>>, responses |-> <<>>,
     client |-> [exit |-> 0, out |-> <<>>, err |-> FALSE]]

EmptyDir ==
    [kvs_log |-> NoFile, kvs_temp_log |-> NoFile, sled_db |-> NoFile, unlinked |-> NoFile]

Init ==
    /\ disk = EmptyDir
    /\ proc = "none"
    /\ store = NoStore
    /\ ref = [k \in Keys |-> None]
    /\ last = NoCall
    /\ inflight = NoCall
    /\ ops = 0
    /\ crashes = 0
    /\ compactions = 0
    /\ srv = ServerDown
    /\ start = NoStart
    /\ conn = NoConn
    /\ reqs = 0

\* Mutating calls a history may issue.
OpsBudget == IF crashes = 0 THEN MaxOps ELSE MaxCrashOps

\* What a call that ended with `status` leaves: on a panic the process is
\* gone, its handles closed (an unlinked file goes with them).
Leave(out) ==
    IF out.status = "panic"
      THEN /\ proc' = "none"
           /\ store' = NoStore
           /\ disk' = [out.disk EXCEPT !.unlinked = NoFile]
      ELSE /\ proc' = "open"
           /\ store' = out.store
           /\ disk' = out.disk

\* The reference map with the mutation `c` applied.
Applied(r, c) ==
    IF c.op = "set" THEN [r EXCEPT ![c.key] = Some(c.value)]
    ELSE IF c.op = "remove" THEN [r EXCEPT ![c.key] = None]
    ELSE r

\* The reference map after a recovery: the mutation a crashed process was
\* executing never returned, so it counts as applied exactly when the
\* recovered store shows its effect.
Recovered(o) ==
    IF inflight.op \in {"set", "remove"}
         /\ get(o.store, o.disk, inflight.key) =
              [status |-> "ok", value |-> Applied(ref, inflight)[inflight.key]]
      THEN Applied(ref, inflight)
      ELSE ref

\* A process calls KvStore::open on the directory.
DoOpen ==
    /\ proc = "none"
    /\ srv.state = "down"
    /\ LET o == open(disk)
       IN  /\ disk' = o.disk
           /\ proc' = IF o.status = "ok" THEN "open" ELSE "none"
           /\ store' = IF o.status = "ok" THEN o.store ELSE NoStore
           /\ last' = Call("open", <<>>, <<>>, o.status, None)
           /\ ref' = IF o.status = "ok" THEN Recovered(o) ELSE ref
           /\ inflight' = IF o.status = "ok" THEN NoCall ELSE inflight
    /\ UNCHANGED <<ops, crashes, compactions, serverVars>>

DoSet(key, value) ==
    /\ proc = "open"
    /\ srv.state = "down"
    /\ ops < OpsBudget
    /\ \E order \in Orders((DOMAIN store.index) \cup {key}) :
          LET out == set(store, disk, key, value, order)
          IN  /\ Leave(out)
              /\ ref' = IF out.status = "ok" THEN [ref EXCEPT ![key] = Some(value)] ELSE ref
              /\ last' = Call("set", key, value, out.status, None)
              /\ compactions' = IF out.compacted THEN compactions + 1 ELSE compactions
    /\ ops' = ops + 1
    /\ UNCHANGED <<inflight, crashes, serverVars>>

DoRemove(key) ==
    /\ proc = "open"
    /\ srv.state = "down"
    /\ ops < OpsBudget
    /\ LET out == remove(store, disk, key)
       IN  /\ Leave(out)
           /\ ref' = IF out.status = "ok" THEN [ref EXCEPT ![key] = None] ELSE ref
           /\ last' = Call("remove", key, <<>>, out.status, None)
    /\ ops' = ops + 1
    /\ UNCHANGED <<inflight, crashes, compactions, serverVars>>

DoGet(key) ==
    /\ proc = "open"
    /\ srv.state = "down"
    /\ LET g == get(store, disk, key)
       IN  last' = Call("get", key, <<>>, g.status, g.value)
    /\ UNCHANGED <<disk, proc, store, ref, inflight, ops, crashes, compactions, serverVars>>

\* The store is dropped (Drop flushes log_writer, which holds nothing: every
\* write was flushed) and the process ends.
DoDrop ==
    /\ proc = "open"
    /\ srv.state = "down"
    /\ proc' = "none"
    /\ store' = NoStore
    /\ disk' = [disk EXCEPT !.unlinked = NoFile]
    /\ last' = Call("drop", <<>>, <<>>, "ok", None)
    /\ UNCHANGED <<ref, inflight, ops, crashes, compactions, serverVars>>

Next ==
    \/ DoOpen
    \/ \E k \in Keys, v \in Values : DoSet(k, v)
    \/ \E k \in Keys : DoRemove(k)
    \/ \E k \in Keys : DoGet(k)
    \/ DoDrop

Spec == Init /\ [][Next]_vars

(***************************************************************************)
(* Crashes: the process is killed between two write calls.  Every write    *)
(* through log_writer is flushed to the file at once                       *)
(* (BufWriterWithPosition::write), and compact writes to kvs_temp.log      *)
(* without a buffer, so the directory holds exactly the writes made.       *)
(***************************************************************************)
\* The bytes of the first n write calls of `writes`.
Written(writes, n) == Flatten(SubSeq(writes, 1, n))

\* set / remove: the write calls for a record, serde_json::to_writer's and
\* then the newline's.
RecordWrites(cmd) == Chunks(cmd) \o << <<NL>> >>

\* The process dies: the store is gone, its handles are closed.
Die(d, op, key, value) ==
    /\ proc' = "none"
    /\ store' = NoStore
    /\ disk' = [d EXCEPT !.unlinked = NoFile]
    /\ inflight' = Call(op, key, value, "crash", None)
    /\ ops' = ops + 1
    /\ crashes' = crashes + 1
    /\ UNCHANGED <<ref, compactions, serverVars>>

CanCrash == proc = "open" /\ srv.state = "down" /\ crashes < MaxCrashes /\ ops < MaxCrashOps

\* A crash in set after n of the write calls of its record.
CrashInSet(key, value) ==
    /\ CanCrash
    /\ \E n \in 0..Len(RecordWrites(SetCmd(key, value))) :
          Die(AppendLog(disk, Written(RecordWrites(SetCmd(key, value)), n)),
              "set", key, value)
    /\ last' = Call("crash_write", key, value, "crash", None)

\* A crash in remove (of a key that get finds) after n of its write calls.
CrashInRemove(key) ==
    /\ CanCrash
    /\ LET g == get(store, disk, key) IN g.status = "ok" /\ RemoveFound(g)
    /\ \E n \in 0..Len(RecordWrites(RemoveCmd(key))) :
          Die(AppendLog(disk, Written(RecordWrites(RemoveCmd(key)), n)),
              "remove", key, <<>>)
    /\ last' = Call("crash_write", key, <<>>, "crash", None)

\* A crash in the compaction a set started, after kvs_temp.log was opened
\* and m write calls were made on it, before the rename.
CrashInCompact(key, value) ==
    /\ CanCrash
    /\ LET w == SetWrite(store, disk, key, value)
       IN  /\ should_compact(w.store)
           /\ \E order \in Orders(DOMAIN w.store.index) :
                 LET copy == CompactCopy(w.store, w.disk, order,
                                         [status |-> "ok", writes |-> <<>>])
                 IN  \E m \in 0..Len(copy.writes) :
                        Die([w.disk EXCEPT !.kvs_temp_log =
                                TempAfterWrite(w.disk.kvs_temp_log,
                                               Written(copy.writes, m))],
                            "set", key, value)
    /\ last' = Call("crash_compact", key, value, "crash", None)

\* A crash in the compaction a set started, after the rename and before the
\* new store is opened and swapped in.
CrashAfterRename(key, value) ==
    /\ CanCrash
    /\ LET w == SetWrite(store, disk, key, value)
       IN  /\ should_compact(w.store)
           /\ \E order \in Orders(DOMAIN w.store.index) :
                 LET copy == CompactCopy(w.store, w.disk, order,
                                         [status |-> "ok", writes |-> <<>>])
                 IN  /\ copy.status = "ok"
                     /\ Die(Rename([w.disk EXCEPT !.kvs_temp_log =
                                       TempAfterWrite(w.disk.kvs_temp_log,
                                                      Flatten(copy.writes))]),
                            "set", key, value)
    /\ last' = Call("crash_renamed", key, value, "crash", None)

NextCrash ==
    \/ Next
    \/ \E k \in Keys, v \in Values : CrashInSet(k, v)
    \/ \E k \in Keys : CrashInRemove(k)
    \/ \E k \in Keys, v \in Values : CrashInCompact(k, v)
    \/ \E k \in Keys, v \in Values : CrashAfterRename(k, v)

SpecCrash == Init /\ [][NextCrash]_vars

\* Histories in which processes are killed only inside compact.
NextCompactCrash ==
    \/ Next
    \/ \E k \in Keys, v \in Values : CrashInCompact(k, v)
    \/ \E k \in Keys, v \in Values : CrashAfterRename(k, v)

SpecCompactCrash == Init /\ [][NextCompactCrash]_vars

\* set(key, value) is killed in the compaction it started when
\* kvs_temp.log is complete, just before the rename: the directory keeps a
\* stale kvs_temp.log.  The call never returns and is not among the calls
\* that `ops` counts; one stale file at a time.
KilledBeforeRename(key, value) ==
    /\ proc = "open"
    /\ srv.state = "down"
    /\ crashes = 0
    /\ ~disk.kvs_temp_log.exists
    /\ LET w == SetWrite(store, disk, key, value)
       IN  /\ should_compact(w.store)
           /\ \E order \in Orders(DOMAIN w.store.index) :
                 LET copy == CompactCopy(w.store, w.disk, order,
                                         [status |-> "ok", writes |-> <<>>])
                 IN  /\ copy.status = "ok"
                     /\ disk' = [w.disk EXCEPT
                                   !.kvs_temp_log = FileOf(Flatten(copy.writes)),
                                   !.unlinked = NoFile]
    /\ proc' = "none"
    /\ store' = NoStore
    /\ inflight' = Call("set", key, value, "crash", None)
    /\ last' = Call("crash_compact", key, value, "crash", None)
    /\ UNCHANGED <<ref, ops, crashes, compactions, serverVars>>

\* The calls that change the store or the directory, and compactions
\* killed before their rename.
NextStaleTemp ==
    \/ DoOpen
    \/ \E k \in Keys, v \in Values : DoSet(k, v)
    \/ \E k \in Keys : DoRemove(k)
    \/ DoDrop
    \/ \E k \in Keys, v \in Values : KilledBeforeRename(k, v)

SpecStaleTemp == Init /\ [][NextStaleTemp]_vars

(***************************************************************************)
(* Properties of the engine in crash-free histories (Spec).                *)
(***************************************************************************)
\* What KvStore::open returns on the directory as it is now.
Reopened == open([disk EXCEPT !.unlinked = NoFile])

\* get(k) on the store a re-open yielded
GetIn(o, k) == get(o.store, o.disk, k)

Found(x) == [status |-> "ok", value |-> x]

\* kvs.log holds a Remove record
HasTombstone ==
    \E i \in 1..Len(Lines(disk.kvs_log.data)), k \in Keys :
        Lines(disk.kvs_log.data)[i] = Encode(RemoveCmd(k))

\* C1 (persistence): after any sequence of set/remove calls, compactions
\* included, opening the directory again yields a store whose get(k) is the
\* value of the last successful set(k, v) not followed by a successful
\* remove(k), and None for every other key.
C1_Persistence ==
    LET o == Reopened
    IN  /\ o.status = "ok"
        /\ \A k \in Keys : GetIn(o, k) = Found(ref[k])

\* a store was re-opened after a compaction, with one key live and one removed
C1_Witness ==
    /\ last.op = "open" /\ last.status = "ok"
    /\ compactions > 0
    /\ HasTombstone
    /\ \E k \in Keys : ref[k].some /\ get(store, disk, k) = Found(ref[k])

\* C2 (read-your-writes): within one engine instance get(k) returns what a
\* plain map subjected to the same successful set and remove calls returns;
\* a compaction inside set does not change this.
C2_ReadYourWrites ==
    proc = "open" => \A k \in Keys : get(store, disk, k) = Found(ref[k])

\* a get returned a value in an instance that compacted and then removed a key
C2_Witness ==
    /\ last.op = "get" /\ last.ret.some /\ last.ret = ref[last.key]
    /\ compactions > 0
    /\ HasTombstone

\* The last line of kvs.log, and whether the log ends with a newline.
LastLine(data) == LET ls == Lines(data) IN IF ls = <<>> THEN <<>> ELSE ls[Len(ls)]
EndsWithNewline(data) == data # <<>> /\ data[Len(data)] = NL

\* C3 (tombstone): when remove(k) returns success, k is not in the index,
\* the last record of kvs.log is Remove{key: k}, and get(k) is None both
\* at once and after a re-open.
C3_Tombstone ==
    (last.op = "remove" /\ last.status = "ok") =>
        /\ last.key \notin DOMAIN store.index
        /\ EndsWithNewline(disk.kvs_log.data)
        /\ LastLine(disk.kvs_log.data) = Encode(RemoveCmd(last.key))
        /\ get(store, disk, last.key) = Found(None)
        /\ LET o == Reopened
           IN  o.status = "ok" /\ GetIn(o, last.key) = Found(None)

\* a remove succeeded while another key stayed live
C3_Witness ==
    /\ last.op = "remove" /\ last.status = "ok"
    /\ DOMAIN store.index # {}
    /\ compactions > 0

\* C4 (remove-absent): remove(k) for a key that is not in the index returns
\* KeyNotFound and leaves the log, the write-position counter, the index
\* and the redundant-entry counter unchanged.
C4_RemoveAbsent ==
    [][(last'.op = "remove" /\ ops' = ops + 1 /\ last'.key \notin DOMAIN store.index) =>
          /\ last'.status = "KeyNotFound"
          /\ disk' = disk
          /\ store' = store]_vars

\* remove of an absent key returned KeyNotFound on a store that holds data
C4_Witness ==
    /\ last.op = "remove" /\ last.status = "KeyNotFound"
    /\ last.key \notin DOMAIN store.index
    /\ DOMAIN store.index # {}
    /\ store.num_unnecessary_entries > 0

\* Bytes of the records (newline included) of the live keys.
RECURSIVE SumLen(_, _)
SumLen(S, f) ==
    IF S = {} THEN 0
    ELSE LET x == CHOOSE x \in S : TRUE IN f[x].len + SumLen(S \ {x}, f)

LiveBytes == SumLen(DOMAIN store.index, store.index)

\* C5 (compaction bound): after every successful set, the size of kvs.log is
\* at most 3 times the total size of the records of the live keys, and the
\* number of records in the log at most 3 times the number of live keys.
C5_CompactionBound ==
    (last.op = "set" /\ last.status = "ok") =>
        /\ Len(disk.kvs_log.data) <= 3 * LiveBytes
        /\ Len(Lines(disk.kvs_log.data)) <= 3 * Cardinality(DOMAIN store.index)

(***************************************************************************)
(* Properties of the engine in histories with crashes (SpecCrash).         *)
(***************************************************************************)
\* C6 (crash during a write): after a crash between two write calls of a
\* record in set or remove, open succeeds and the recovered store holds
\* every mutation that had returned; only the record in flight may be
\* missing.
C6_CrashInWrite ==
    last.op = "crash_write" =>
        LET o == Reopened
        IN  /\ o.status = "ok"
            /\ \A k \in Keys :
                  GetIn(o, k) \in {Found(ref[k]), Found(Applied(ref, inflight)[k])}

\* C7 (crash during compaction): after a crash at any step of compact,
\* kvs.log is a valid log and the next open yields for every key the value
\* of the last mutation that returned, the record of the set that started
\* the compaction included.
C7_CrashInCompaction ==
    last.op \in {"crash_compact", "crash_renamed"} =>
        LET o == Reopened
        IN  /\ o.status = "ok"
            /\ \A k \in Keys : GetIn(o, k) = Found(Applied(ref, inflight)[k])

(***************************************************************************)
(* SledKvsEngine: the sled tree under sled_db.log, as the map it stores.   *)
(***************************************************************************)
\* SledKvsEngine::open: sled::open creates sled_db.log when it is missing.
sled_open(d) ==
    IF d.sled_db.exists THEN d ELSE [d EXCEPT !.sled_db = FileOf(EmptyIndex)]

\* SledKvsEngine::get
sled_get(d, key) ==
    IF key \in DOMAIN d.sled_db.data
      THEN [status |-> "ok", value |-> Some(d.sled_db.data[key])]
      ELSE [status |-> "ok", value |-> None]

\* SledKvsEngine::set: insert, flush
sled_set(d, key, value) ==
    [status |-> "ok",
     disk |-> [d EXCEPT !.sled_db = FileOf(IndexInsert(d.sled_db.data, key, value))]]

\* SledKvsEngine::remove: remove, flush, Err when the key was not there
sled_remove(d, key) ==
    IF key \in DOMAIN d.sled_db.data
      THEN [status |-> "ok",
            disk |-> [d EXCEPT !.sled_db = FileOf(IndexRemove(d.sled_db.data, key))]]
      ELSE [status |-> "err", disk |-> d]

(***************************************************************************)
(* ServerResponse and its JSON text: "SetSuccess", {"GetResponse":"1"},    *)
(* {"GetResponse":null}.                                                   *)
(***************************************************************************)
GetResponse(x) == [tag |-> "GetResponse", value |-> x]
SetSuccess == [tag |-> "SetSuccess", value |-> None]
SetFailure == [tag |-> "SetFailure", value |-> None]
RemoveSuccess == [tag |-> "RemoveSuccess", value |-> None]
RemoveFailure == [tag |-> "RemoveFailure", value |-> None]

ServerResponses ==
    { GetResponse(Some(v)) : v \in Values }
        \cup { GetResponse(None), SetSuccess, SetFailure, RemoveSuccess, RemoveFailure }

ResponseTagBytes(tag) ==
    CASE tag = "GetResponse" -> <<"G", "e", "t", "R", "e", "s", "p", "o", "n", "s", "e">>
      [] tag = "SetSuccess" -> <<"S", "e", "t", "S", "u", "c", "c", "e", "s", "s">>
      [] tag = "SetFailure" -> <<"S", "e", "t", "F", "a", "i", "l", "u", "r", "e">>
      [] tag = "RemoveSuccess" ->
            <<"R", "e", "m", "o", "v", "e", "S", "u", "c", "c", "e", "s", "s">>
      [] tag = "RemoveFailure" ->
            <<"R", "e", "m", "o", "v", "e", "F", "a", "i", "l", "u", "r", "e">>

\* serde_json::to_string::<ServerResponse>
EncodeResponse(r) ==
    IF r.tag = "GetResponse"
      THEN <<"{", QUOTE>> \o ResponseTagBytes(r.tag) \o <<QUOTE, ":">>
             \o (IF r.value.some
                   THEN <<QUOTE>> \o r.value.v \o <<QUOTE>>
                   ELSE <<"n", "u", "l", "l">>)
             \o <<"}">>
      ELSE <<QUOTE>> \o ResponseTagBytes(r.tag) \o <<QUOTE>>

EncodedResponse == [r \in ServerResponses |-> EncodeResponse(r)]

\* serde_json::from_str::<ServerResponse>
DecodeResponse(bytes) ==
    LET t == TrimEnd(TrimStart(bytes))
    IN  IF \E r \in ServerResponses : EncodedResponse[r] = t
          THEN [ok |-> TRUE, resp |-> CHOOSE r \in ServerResponses : EncodedResponse[r] = t]
          ELSE [ok |-> FALSE, resp |-> SetFailure]

(***************************************************************************)
(* The engine behind the KvsEngine trait object the server holds.  `io` is *)
(* the outcome of the file operations of the call: "ok", "err" when the    *)
(* first one fails with an I/O error, "err_compact" when the first one of  *)
(* a compaction inside the call does (the open of kvs_temp.log).           *)
(***************************************************************************)
EngineTypes == {"kvs", "sled"}
IoOutcomes == {"ok", "err", "err_compact"}

\* engine.get(key): KvStore::get touches the file only for an indexed key
EngineGet(engine, st, d, key, io) ==
    IF engine = "kvs"
      THEN IF io = "err" /\ key \in DOMAIN st.index
             THEN [status |-> "err", value |-> None]
             ELSE get(st, d, key)
      ELSE IF io = "err" THEN [status |-> "err", value |-> None] ELSE sled_get(d, key)

\* set whose compaction, if it starts one, fails at its first file
\* operation: self.compact()? returns the Err after the record was written
\* and the index updated.
SetCompactFails(w, order) ==
    IF should_compact(w.store)
      THEN [status |-> "err", store |-> w.store, disk |-> w.disk, compacted |-> FALSE]
      ELSE [status |-> "ok", store |-> w.store, disk |-> w.disk, compacted |-> FALSE]

\* engine.set(key, value): KvStore::set counts the redundant entry before
\* its first write
EngineSet(engine, st, d, key, value, order, io) ==
    IF engine = "kvs"
      THEN IF io = "err"
             THEN [status |-> "err",
                   store |-> [st EXCEPT !.num_unnecessary_entries =
                                 IF key \in DOMAIN st.index THEN @ + 1 ELSE @],
                   disk |-> d, compacted |-> FALSE]
             ELSE IF io = "err_compact"
                    THEN SetCompactFails(SetWrite(st, d, key, value), order)
                    ELSE set(st, d, key, value, order)
      ELSE IF io = "err"
             THEN [status |-> "err", store |-> st, disk |-> d, compacted |-> FALSE]
             ELSE [status |-> "ok", store |-> st,
                   disk |-> sled_set(d, key, value).disk, compacted |-> FALSE]

\* The result of a sled call next to the (absent) KvStore
SledResult(st, r) == [status |-> r.status, store |-> st, disk |-> r.disk]

\* engine.remove(key)
EngineRemove(engine, st, d, key, io) ==
    IF engine = "kvs"
      THEN IF io = "err" /\ key \in DOMAIN st.index
             THEN [status |-> "err", store |-> st, disk |-> d]
             ELSE remove(st, d, key)
      ELSE IF io = "err"
             THEN [status |-> "err", store |-> st, disk |-> d]
             ELSE SledResult(st, sled_remove(d, key))

(***************************************************************************)
(* KvsServer::new                                                          *)
(***************************************************************************)
\* existing_engine: the first entry of read_dir named kvs.log or
\* sled_db.log; the order of read_dir is the file system's.  The set of
\* results the call can give ("none" for None).
existing_engine(d) ==
    LET found == { e \in EngineTypes :
                     \/ e = "kvs" /\ d.kvs_log.exists
                     \/ e = "sled" /\ d.sled_db.exists }
    IN  IF found = {} THEN {"none"} ELSE found

\* (mutant) the default engine whatever exists
AlwaysDefaultEngine(existing) == "kvs"

load_existing_or_default_engine(existing) ==
    IF existing = "sled" THEN "sled" ELSE "kvs"

\* (mutant) the requested engine wins over the one found
RequestedEngineWins(engine, existing) ==
    IF engine = "none" THEN load_existing_or_default_engine(existing) ELSE engine

\* The match of KvsServer::new on (engine, existing_engine): the engine to
\* open, "error" for the arm that returns Err.
SelectEngine(engine, existing) ==
    CASE engine = "none" -> load_existing_or_default_engine(existing)
      [] engine = "kvs" /\ existing = "kvs" -> "kvs"
      [] engine = "sled" /\ existing = "sled" -> "sled"
      [] engine = "kvs" /\ existing = "none" -> "kvs"
      [] engine = "sled" /\ existing = "none" -> "sled"
      [] OTHER -> "error"

\* KvsServer::new after the match chose `sel`: o is what opening that
\* engine gave; TcpListener::bind comes last.
NewServer(sel, o, d, port_free) ==
    IF sel = "error"
      THEN [result |-> "err", opened |-> "none", bound |-> FALSE,
            store |-> NoStore, disk |-> d]
    ELSE IF o.status # "ok"
      THEN [result |-> o.status, opened |-> sel, bound |-> FALSE,
            store |-> NoStore, disk |-> o.disk]
    ELSE IF port_free
      THEN [result |-> "ok", opened |-> sel, bound |-> TRUE,
            store |-> o.store, disk |-> o.disk]
    ELSE [result |-> "err", opened |-> sel, bound |-> FALSE,
          store |-> NoStore, disk |-> o.disk]

\* KvStore::open or SledKvsEngine::open in the arm the match took
OpenEngine(sel, d) ==
    IF sel = "kvs" THEN open(d)
    ELSE [status |-> "ok", store |-> NoStore, disk |-> sled_open(d)]

\* KvsServer::new with the match's choice
NewSelected(sel, d, port_free) == NewServer(sel, OpenEngine(sel, d), d, port_free)

\* KvsServer::new: select, open the engine, bind the listener.
KvsServerNew(engine, existing, d, port_free) ==
    NewSelected(SelectEngine(engine, existing), d, port_free)

(***************************************************************************)
(* KvsServer::handle_client_request and the client side of a connection.   *)
(***************************************************************************)
\* format!("{}\n", serde_json::to_string(&server_response)?)
ResponseLine(r) == EncodeResponse(r) \o <<NL>>

\* What the handler returns with: its Result ("panic" when the engine
\* aborted the process), the engine calls made, the writes to the stream,
\* the engine it leaves.
Handled(result, calls, responses, st, d, compacted) ==
    [result |-> result, calls |-> calls, responses |-> responses,
     store |-> st, disk |-> d, compacted |-> compacted]

\* The Get arm, engine.get having returned g: an Err leaves through `?`
GetArm(key, g, st, d) ==
    IF g.status = "ok"
      THEN Handled("ok", << Call("get", key, <<>>, g.status, g.value) >>,
                   << ResponseLine(GetResponse(g.value)) >>, st, d, FALSE)
      ELSE Handled("err", << Call("get", key, <<>>, g.status, g.value) >>,
                   <<>>, st, d, FALSE)

\* The Set arm, engine.set having returned w
SetArm(key, value, w) ==
    IF w.status = "panic"
      THEN Handled("panic", << Call("set", key, value, w.status, None) >>,
                   <<>>, w.store, w.disk, w.compacted)
      ELSE Handled("ok", << Call("set", key, value, w.status, None) >>,
                   << ResponseLine(IF w.status = "ok" THEN SetSuccess ELSE SetFailure) >>,
                   w.store, w.disk, w.compacted)

\* The Remove arm, engine.remove having returned r
RemoveArm(key, r) ==
    Handled("ok", << Call("remove", key, <<>>, r.status, None) >>,
            << ResponseLine(IF r.status = "ok" THEN RemoveSuccess ELSE RemoveFailure) >>,
            r.store, r.disk, FALSE)

\* The match on the decoded command
Dispatch(engine, st, d, dec, order, io) ==
    IF ~dec.ok THEN Handled("err", <<>>, <<>>, st, d, FALSE)
    ELSE IF dec.cmd.tag = "Get"
      THEN GetArm(dec.cmd.key, EngineGet(engine, st, d, dec.cmd.key, io), st, d)
    ELSE IF dec.cmd.tag = "Set"
      THEN SetArm(dec.cmd.key, dec.cmd.value,
                  EngineSet(engine, st, d, dec.cmd.key, dec.cmd.value, order, io))
    ELSE RemoveArm(dec.cmd.key, EngineRemove(engine, st, d, dec.cmd.key, io))

\* handle_client_request on a connection whose first line is `line`.
handle_client_request(engine, st, d, line, order, io) ==
    Dispatch(engine, st, d, Decode(line), order, io)

\* KvsClient::send_command: the line the client sends for a command
RequestLine(cmd) == Encode(cmd) \o <<NL>>

\* (mutant) every failure response is an Err
SendCommandFailuresAreErrors(reply) ==
    LET dec == DecodeResponse(reply)
    IN  IF ~dec.ok THEN [status |-> "err", value |-> None]
        ELSE IF dec.resp.tag = "GetResponse" THEN [status |-> "ok", value |-> dec.resp.value]
        ELSE IF dec.resp.tag \in {"RemoveFailure", "SetFailure"}
          THEN [status |-> "err", value |-> None]
        ELSE [status |-> "ok", value |-> None]

\* KvsClient::send_command: what it returns for the bytes read from the
\* connection until the server closed it.
send_command(reply) ==
    LET dec == DecodeResponse(reply)
    IN  IF ~dec.ok THEN [status |-> "err", value |-> None]
        ELSE IF dec.resp.tag = "GetResponse" THEN [status |-> "ok", value |-> dec.resp.value]
        ELSE IF dec.resp.tag = "RemoveFailure" THEN [status |-> "err", value |-> None]
        ELSE [status |-> "ok", value |-> None]

KeyNotFoundText ==
    <<"K", "e", "y", " ", "n", "o", "t", " ", "f", "o", "u", "n", "d">>

\* A client process ended: exit code, standard output, and whether
\* "Key not found" went to standard error.
Exit(code, out, key_not_found) == [exit |-> code, out |-> out, err |-> key_not_found]

\* kvs-client main for the command `cmd`, send_command having returned sc.
\* main returning Err ends the process with exit code 1.
client_main(cmd, sc) ==
    IF cmd.tag = "Set"
      THEN IF sc.status = "ok" THEN Exit(0, <<>>, FALSE) ELSE Exit(1, <<>>, FALSE)
    ELSE IF cmd.tag = "Get"
      THEN IF sc.status # "ok" THEN Exit(1, <<>>, FALSE)
           ELSE IF sc.value.some THEN Exit(0, sc.value.v \o <<NL>>, FALSE)
           ELSE Exit(0, KeyNotFoundText \o <<NL>>, FALSE)
    ELSE IF sc.status = "ok" THEN Exit(0, <<>>, FALSE) ELSE Exit(1, <<>>, TRUE)

\* A line that is no Command
Garbage == <<"x", NL>>

\* The first lines of the connections the server accepts.
RequestLines == { RequestLine(c) : c \in Commands } \cup {Garbage}

(***************************************************************************)
(* The server process: kvs-server main calls KvsServer::new and then run,  *)
(* which handles one connection after the other.  The working directory    *)
(* is the engine's data directory and only server processes use it.        *)
(***************************************************************************)
RequestedEngines == {"none"} \cup EngineTypes

\* The process after KvsServer::new returned r.
Started(engine, existing, r) ==
    /\ start' = [n |-> start.n + 1, requested |-> engine, existing |-> existing,
                 opened |-> r.opened, bound |-> r.bound, result |-> r.result]
    /\ srv' = IF r.result = "ok" THEN [state |-> "running", engine |-> r.opened]
              ELSE ServerDown
    /\ proc' = IF r.result = "ok" /\ r.opened = "kvs" THEN "open" ELSE "none"
    /\ store' = r.store
    /\ disk' = r.disk

\* kvs-server is started with --engine `engine` (or none); whether the
\* address is free is the environment's.
ServerStart(engine, port_free) ==
    /\ srv.state = "down"
    /\ proc = "none"
    /\ start.n < MaxStarts
    /\ \E existing \in existing_engine(disk) :
          Started(engine, existing, KvsServerNew(engine, existing, disk, port_free))
    /\ UNCHANGED <<ref, last, inflight, ops, crashes, compactions, conn, reqs>>

\* The request changes the store.
Mutating(dec) == dec.ok /\ dec.cmd.tag \in {"Set", "Remove"}

\* The orders in which a compaction inside the request may visit the index.
HandleOrders(dec) ==
    IF srv.engine = "kvs" /\ dec.ok /\ dec.cmd.tag = "Set"
      THEN Orders((DOMAIN store.index) \cup {dec.cmd.key})
      ELSE {<<>>}

\* The connection and the process after handle_client_request returned h;
\* an Err ends run and with it the process.
Served(line, dec, h) ==
    /\ conn' = [request |-> line, calls |-> h.calls, responses |-> h.responses,
                client |-> IF dec.ok
                             THEN client_main(dec.cmd, send_command(Flatten(h.responses)))
                             ELSE NoConn.client]
    /\ srv' = IF h.result = "ok" THEN srv ELSE ServerDown
    /\ proc' = IF h.result = "ok" THEN proc ELSE "none"
    /\ store' = IF h.result = "ok" THEN h.store ELSE NoStore
    /\ disk' = IF h.result = "ok" THEN h.disk ELSE [h.disk EXCEPT !.unlinked = NoFile]
    /\ ref' = IF srv.engine = "kvs" /\ Mutating(dec) /\ h.calls[1].status = "ok"
                THEN Applied(ref, h.calls[1]) ELSE ref
    /\ compactions' = IF h.compacted THEN compactions + 1 ELSE compactions
    /\ reqs' = IF Mutating(dec) THEN reqs + 1 ELSE reqs

\* run accepts a connection and handles it.
ServerHandle(line, io) ==
    /\ srv.state = "running"
    /\ Mutating(Decode(line)) => reqs < MaxRequests
    /\ \E order \in HandleOrders(Decode(line)) :
          Served(line, Decode(line),
                 handle_client_request(srv.engine, store, disk, line, order, io))
    /\ UNCHANGED <<last, inflight, ops, crashes, start>>

\* The server process is stopped between two connections.
ServerKill ==
    /\ srv.state = "running"
    /\ srv' = ServerDown
    /\ proc' = "none"
    /\ store' = NoStore
    /\ disk' = [disk EXCEPT !.unlinked = NoFile]
    /\ UNCHANGED <<ref, last, inflight, ops, crashes, compactions, start, conn, reqs>>

NextServer ==
    \/ \E engine \in RequestedEngines, port_free \in BOOLEAN : ServerStart(engine, port_free)
    \/ \E line \in RequestLines, io \in IoOutcomes : ServerHandle(line, io)
    \/ ServerKill

SpecServer == Init /\ [][NextServer]_vars

(***************************************************************************)
(* Properties of the server (SpecServer).                                  *)
(***************************************************************************)
\* The selection table: requested engine, engine found on disk, outcome.
SelectionTable(requested, existing) ==
    CASE requested = "none" /\ existing = "none" -> "kvs"
      [] requested = "none" /\ existing = "kvs" -> "kvs"
      [] requested = "none" /\ existing = "sled" -> "sled"
      [] requested = "kvs" /\ existing \in {"none", "kvs"} -> "kvs"
      [] requested = "sled" /\ existing \in {"none", "sled"} -> "sled"
      [] requested = "kvs" /\ existing = "sled" -> "error"
      [] requested = "sled" /\ existing = "kvs" -> "error"

\* C8 (engine selection table): the engine a server start opens is the
\* table's entry for the requested engine and the engine found in the
\* working directory; on "error" no engine is opened and the start fails;
\* a running server holds the engine its start opened, with that engine's
\* files in the directory.
C8_SelectionTable ==
    start.n > 0 =>
        LET t == SelectionTable(start.requested, start.existing)
        IN  /\ t = "error" => start.opened = "none" /\ start.result = "err"
            /\ t # "error" => start.opened = t
            /\ srv.state = "running" =>
                  /\ srv.engine = t
                  /\ t = "kvs" => proc = "open" /\ disk.kvs_log.exists
                  /\ t = "sled" => proc = "none" /\ disk.sled_db.exists

\* a start without --engine found the sled store of an earlier server,
\* which holds a key, and runs on it
C8_Witness ==
    /\ start.n > 1
    /\ start.requested = "none"
    /\ start.existing = "sled"
    /\ srv = [state |-> "running", engine |-> "sled"]
    /\ DOMAIN disk.sled_db.data # {}

\* The requested engine is not the one whose files are in the directory d.
Mismatch(requested, d) ==
    \/ requested = "sled" /\ d.kvs_log.exists
    \/ requested = "kvs" /\ d.sled_db.exists

\* C9 (selection mismatch fails before any side effect): a server start
\* that requests sled on a directory holding kvs.log, or kvs on a directory
\* holding sled_db.log, returns an error, opens no engine, binds no
\* listener, and leaves the directory exactly as it was (no file created,
\* the existing log unmodified).
C9_MismatchNoSideEffect ==
    [][ (start'.n = start.n + 1 /\ Mismatch(start'.requested, disk)) =>
            /\ start'.result = "err"
            /\ start'.opened = "none"
            /\ ~start'.bound
            /\ disk' = disk
            /\ srv' = ServerDown
            /\ proc' = "none"
            /\ store' = NoStore ]_vars

\* sled was requested on the non-empty log of an earlier server and the
\* start failed
C9_Witness ==
    /\ start.requested = "sled"
    /\ start.existing = "kvs"
    /\ start.result = "err"
    /\ srv.state = "down"
    /\ disk.kvs_log.data # <<>>
    /\ ~disk.sled_db.exists

\* The response the protocol prescribes for the engine call c.
Prescribed(c) ==
    IF c.op = "get" THEN GetResponse(c.ret)
    ELSE IF c.op = "set" THEN (IF c.status = "ok" THEN SetSuccess ELSE SetFailure)
    ELSE (IF c.status = "ok" THEN RemoveSuccess ELSE RemoveFailure)

\* What the client of the protocol observes for a response.
Observed(resp) ==
    IF resp.tag = "GetResponse"
      THEN Exit(0, (IF resp.value.some THEN resp.value.v ELSE KeyNotFoundText) \o <<NL>>,
                FALSE)
    ELSE IF resp.tag = "RemoveFailure" THEN Exit(1, <<>>, TRUE)
    ELSE Exit(0, <<>>, FALSE)

\* C10 (request/response protocol): on every connection carrying a
\* well-formed request the server makes exactly one engine call, the one
\* the request names, and writes exactly one response, the one prescribed
\* for the call's result: GetResponse(engine.get(k)), SetSuccess or
\* SetFailure, RemoveSuccess or RemoveFailure; the client prints the value
\* or "Key not found" for a get, and exits with code 1 exactly on
\* RemoveFailure.
C10_Protocol ==
    \A c \in Commands :
        conn.request = RequestLine(c) =>
            /\ Len(conn.calls) = 1
            /\ conn.calls[1].op = (IF c.tag = "Get" THEN "get"
                                   ELSE IF c.tag = "Set" THEN "set" ELSE "remove")
            /\ conn.calls[1].key = c.key
            /\ c.tag = "Set" => conn.calls[1].value = c.value
            /\ Len(conn.responses) = 1
            /\ conn.responses[1] = ResponseLine(Prescribed(conn.calls[1]))
            /\ conn.client = Observed(Prescribed(conn.calls[1]))

\* The engine call of the last connection returned an error.
EngineCallFailed ==
    conn.calls # <<>> /\ conn.calls[1].status \in {"err", "KeyNotFound"}

\* C11 (engine errors become structured responses): whenever the engine
\* call of a connection returns an error, whatever the kind of the request,
\* the server writes exactly one response on the connection and it is a
\* failure response; no connection whose socket works is closed without a
\* response.
C11_EngineErrors ==
    EngineCallFailed =>
        /\ Len(conn.responses) = 1
        /\ DecodeResponse(conn.responses[1]).ok
        /\ DecodeResponse(conn.responses[1]).resp.tag \in {"SetFailure", "RemoveFailure"}

(***************************************************************************)
(* Invariants of the index and of the counters (Spec).                     *)
(***************************************************************************)
\* The last call was a mutation that returned success, and the instance
\* that made it still holds the store.
AfterMutation ==
    proc = "open" /\ last.op \in {"set", "remove"} /\ last.status = "ok"

\* C12 (recovery reproduces the index): after every successful mutation of
\* a crash-free history, the index that open builds by replaying kvs.log
\* has the same keys as the index of the instance that made the mutation
\* and, for each key, the same offset and the same length.
C12_RecoveredIndex ==
    AfterMutation =>
        LET o == Reopened
        IN  /\ o.status = "ok"
            /\ DOMAIN o.store.index = DOMAIN store.index
            /\ \A k \in DOMAIN store.index :
                  /\ o.store.index[k].pos = store.index[k].pos
                  /\ o.store.index[k].len = store.index[k].len

\* The bytes of kvs.log in the range of the index entry cp.
RangeOf(cp) == SubSeq(disk.kvs_log.data, cp.pos + 1, cp.pos + cp.len)

\* C13 (index validity): in every state in which an engine instance holds
\* the store, for every key k of the index the byte range
\* [offset, offset + length) lies in kvs.log and decodes to a Set record
\* whose key is k.
C13_IndexValid ==
    proc = "open" =>
        \A k \in DOMAIN store.index :
            LET cp == store.index[k]
            IN  /\ cp.pos + cp.len <= Len(disk.kvs_log.data)
                /\ Decode(RangeOf(cp)).ok
                /\ Decode(RangeOf(cp)).cmd.tag = "Set"
                /\ Decode(RangeOf(cp)).cmd.key = k

\* C14 (write position equals file size): whenever an engine instance
\* holds the store - after open returned on a log it accepts, ended by a
\* newline or not, and after every set, remove and compaction - the
\* writer's position counter equals the size of kvs.log in bytes.
C14_WritePosition ==
    proc = "open" => store.num_bytes_written = Len(disk.kvs_log.data)

\* C15 (index entry length excludes the newline): the CommandPos that a
\* successful set(k, v) stores (seen after every set that did not go on to
\* compact, where the entry set stored is still in the index) has the
\* offset the writer was at before the record and the length of the
\* encoded record without its newline, pos_after - pos_before - 1.
C15_EntryLength ==
    [][ (/\ last'.op = "set"
         /\ last'.status = "ok"
         /\ ops' = ops + 1
         /\ compactions' = compactions) =>
            store'.index[last'.key] =
                CommandPos(store.num_bytes_written,
                           Len(Encode(SetCmd(last'.key, last'.value)))) ]_vars

(***************************************************************************)
(* Compaction (Spec).                                                      *)
(***************************************************************************)
\* The step is a call of set(last'.key, last'.value).
SetStep == last'.op = "set" /\ ops' = ops + 1

\* The redundant counter and the size of the index once set has counted
\* and inserted its key, before it asks whether to compact.
RedundantAfterSet ==
    IF last'.key \in DOMAIN store.index
      THEN store.num_unnecessary_entries + 1
      ELSE store.num_unnecessary_entries
IndexLenAfterSet == Cardinality((DOMAIN store.index) \cup {last'.key})

\* C16 (compaction trigger): a compaction runs in a step exactly when the
\* step is a set and, after the set has appended its record, counted the
\* redundant entry (if the key was present) and updated the index,
\* index.len() > 0 and redundant_entries / index.len() > 0.5, that is
\* 2 * redundant_entries > index.len(); no compaction runs in open, get,
\* remove or drop, nor in a set at a ratio of at most 0.5.
C16_CompactionTrigger ==
    [][ IF SetStep
          THEN (compactions' = compactions + 1)
                 <=> (IndexLenAfterSet > 0 /\ 2 * RedundantAfterSet > IndexLenAfterSet)
          ELSE compactions' = compactions ]_vars

\* the second set of the only live key compacted within that set
C16_Witness ==
    /\ last.op = "set"
    /\ last.status = "ok"
    /\ ops = 2
    /\ compactions = 1
    /\ DOMAIN store.index = {last.key}
    /\ store.num_unnecessary_entries = 0

\* The live keys and their values once set(last'.key, last'.value) has
\* updated the index, before it compacts: the keys of the index and the
\* values get returned for them, with the pair just set.
LiveAfterSet ==
    [k \in (DOMAIN store.index) \cup {last'.key} |->
        IF k = last'.key THEN last'.value ELSE get(store, disk, k).value.v]

\* kvs.log of d holds exactly one record per key of vals, each a Set of
\* the key's value in vals, each followed by its newline.
OneSetPerLiveKey(d, vals) ==
    LET ls == Lines(d.kvs_log.data)
    IN  /\ Len(ls) = Cardinality(DOMAIN vals)
        /\ \A i \in 1..Len(ls) :
              /\ Decode(ls[i]).ok
              /\ Decode(ls[i]).cmd.tag = "Set"
              /\ Decode(ls[i]).cmd.key \in DOMAIN vals
              /\ Decode(ls[i]).cmd.value = vals[Decode(ls[i]).cmd.key]
        /\ \A k \in DOMAIN vals : \E i \in 1..Len(ls) : Decode(ls[i]).cmd.key = k
        /\ d.kvs_log.data = <<>> \/ d.kvs_log.data[Len(d.kvs_log.data)] = NL

\* C17 (post-compaction state): right after a step in which a compaction
\* completed, kvs.log holds exactly one record per live key, every record
\* is a Set of the key's latest value (no tombstone, no superseded Set),
\* the redundant-entry counter is zero, the index has exactly the live
\* keys, and the store's reader and writer are on the new kvs.log, the
\* writer at its end.
C17_PostCompaction ==
    [][ compactions' = compactions + 1 =>
            /\ OneSetPerLiveKey(disk', LiveAfterSet)
            /\ store'.num_unnecessary_entries = 0
            /\ DOMAIN store'.index = DOMAIN LiveAfterSet
            /\ proc' = "open"
            /\ ~disk'.unlinked.exists
            /\ EngineData(disk') = disk'.kvs_log.data
            /\ store'.num_bytes_written = Len(disk'.kvs_log.data) ]_vars

\* The store and the directory as set(last'.key, last'.value) leaves them
\* when it calls compact: the record appended and the index updated.
BeforeCompaction == SetWrite(store, disk, last'.key, last'.value)

\* C18 (compaction preserves contents): in a step in which a compaction
\* completed, get(k) right after it returns, for every key k, what get(k)
\* returned right before it, and the index has the same keys; the
\* compaction changes the log, the offsets and the counter only.
C18_CompactionPreserves ==
    [][ compactions' = compactions + 1 =>
            /\ \A k \in Keys :
                  get(store', disk', k) = get(BeforeCompaction.store, BeforeCompaction.disk, k)
            /\ DOMAIN store'.index = DOMAIN BeforeCompaction.store.index ]_vars

\* C19 (stale temp file is discarded): when kvs_temp.log exists as a set
\* starts and the compaction of that set renames it to kvs.log, the new
\* kvs.log holds exactly the records of the keys live at that compaction,
\* with their values: nothing of the stale file is left in it.
C19_StaleTempDiscarded ==
    [][ (disk.kvs_temp_log.exists /\ ~disk'.kvs_temp_log.exists) =>
            OneSetPerLiveKey(disk', LiveAfterSet) ]_vars

\* The number of records with the given tag in the log the store reads.
RecordsOf(tag, d) ==
    Cardinality({i \in 1..Len(Lines(EngineData(d))) :
                    /\ Decode(Lines(EngineData(d))[i]).ok
                    /\ Decode(Lines(EngineData(d))[i]).cmd.tag = tag})

\* The store is a KvStore (a server on sled keeps none).
HoldsKvStore == proc = "open" /\ (srv.state = "running" => srv.engine = "kvs")

\* C20 (counter accounting, I4): while an engine instance holds the store,
\* index.len() + num_unnecessary_entries is at most the number of Set
\* records appended to its log, and equal to it when the log holds no
\* Remove record.
C20_CounterAccounting ==
    HoldsKvStore =>
        LET total == Cardinality(DOMAIN store.index) + store.num_unnecessary_entries
        IN  /\ total <= RecordsOf("Set", disk)
            /\ RecordsOf("Remove", disk) = 0 => total = RecordsOf("Set", disk)

\* Second half of I4: a step raises the counter by one at most, only in
\* a set whose key is in the index or in an open that replays the log, and
\* a remove leaves it as it is.
CounterSteps ==
    [][ (proc = "open" /\ proc' = "open" /\ HoldsKvStore) =>
            /\ store'.num_unnecessary_entries > store.num_unnecessary_entries =>
                  /\ store'.num_unnecessary_entries = store.num_unnecessary_entries + 1
                  /\ \E k \in DOMAIN store.index :
                        \/ last'.op = "set" /\ last'.key = k /\ ops' = ops + 1
                        \/ /\ conn'.calls # <<>>
                           /\ conn'.calls[1].op = "set"
                           /\ conn'.calls[1].key = k
            /\ (last'.op = "remove" /\ ops' = ops + 1) =>
                  store'.num_unnecessary_entries = store.num_unnecessary_entries ]_vars

(***************************************************************************)
(* Recovery of a log the engine did not write itself: open is applied to   *)
(* a kvs.log of up to MaxLogLines lines, each a Set, Remove or Get record  *)
(* or a line that is no Command (SpecRecover).                             *)
(***************************************************************************)
MaxLogLines == 2

\* The lines of a kvs.log that open may find.
LogLines == { Encode(c) : c \in Commands } \cup { <<"x">> }

\* The logs of at most MaxLogLines such lines, every line with its newline.
FoundLogs ==
    UNION { { Flatten([i \in 1..n |-> f[i] \o <<NL>>]) : f \in [1..n -> LogLines] } :
            n \in 0..MaxLogLines }

InitRecover ==
    /\ \E log \in FoundLogs : disk = [EmptyDir EXCEPT !.kvs_log = FileOf(log)]
    /\ proc = "none"
    /\ store = NoStore
    /\ ref = [k \in Keys |-> None]
    /\ last = NoCall
    /\ inflight = NoCall
    /\ ops = 0
    /\ crashes = 0
    /\ compactions = 0
    /\ srv = ServerDown
    /\ start = NoStart
    /\ conn = NoConn
    /\ reqs = 0

NextRecover == DoOpen \/ DoDrop

SpecRecover == InitRecover /\ [][NextRecover]_vars

\* kvs.log holds a line that is no Command, or a Get record.
HasCorruptLine(d) ==
    \E i \in 1..Len(Lines(d.kvs_log.data)) :
        \/ ~Decode(Lines(d.kvs_log.data)[i]).ok
        \/ Decode(Lines(d.kvs_log.data)[i]).cmd.tag = "Get"

\* C21 (recovery reports corruption as an error value): an open that
\* replays a log with a line that does not decode, or with a line that
\* decodes to a Get record, returns an Err to its caller - the process is
\* not aborted - and leaves the log as it was.
C21_CorruptionError ==
    [][ (last'.op = "open" /\ proc = "none" /\ HasCorruptLine(disk)) =>
            /\ last'.status = "err"
            /\ disk' = disk ]_vars

(***************************************************************************)
(* Reporting of a Set request (SpecServer).                                *)
(***************************************************************************)
\* The step handled a Set request and answered it with the response r.
AnsweredSet(r) ==
    /\ reqs' = reqs + 1
    /\ conn'.calls # <<>>
    /\ conn'.calls[1].op = "set"
    /\ conn'.responses = << ResponseLine(r) >>

\* C22 (honest set reporting): a Set request is answered with SetFailure
\* only if the engine failed before the record was persisted - the
\* directory and the index are as they were - and with SetSuccess only if
\* the value is stored, also when the set started a compaction.
C22_HonestSet ==
    [][ /\ AnsweredSet(SetFailure) =>
              /\ disk' = disk
              /\ store'.index = store.index
        /\ AnsweredSet(SetSuccess) =>
              EngineGet(srv.engine, store', disk', conn'.calls[1].key, "ok")
                  = [status |-> "ok", value |-> Some(conn'.calls[1].value)] ]_vars

\* The step handled a connection whose line is no Command.
HandledMalformed ==
    /\ srv.state = "running"
    /\ conn' # conn
    /\ ~Decode(conn'.request).ok

\* C23 (a malformed request only closes its connection): when the line of
\* a connection does not decode to a Command, the server makes no engine
\* call and writes no response, the engine's state and directory are as
\* they were, and the server is still running, ready for the next
\* connection.
C23_MalformedRequest ==
    [][ HandledMalformed =>
            /\ conn'.calls = <<>>
            /\ conn'.responses = <<>>
            /\ store' = store
            /\ disk' = disk
            /\ srv' = srv ]_vars

(***************************************************************************)
(* The client's report of a response (SpecServer).                         *)
(***************************************************************************)
\* The last connection carried a Command and the server's reply decodes to
\* the response with the given tag.
Replied(tag) ==
    /\ Decode(conn.request).ok
    /\ DecodeResponse(Flatten(conn.responses)).ok
    /\ DecodeResponse(Flatten(conn.responses)).resp.tag = tag

\* C24 (what the client reports as an error): the client of a connection
\* ends with a non-zero exit code exactly when the reply is RemoveFailure
\* or does not decode to a response (nothing was sent); after every other
\* response, SetFailure included, it exits with status 0.
C24_ClientErrors ==
    Decode(conn.request).ok =>
        /\ conn.client.exit # 0 <=>
              \/ ~DecodeResponse(Flatten(conn.responses)).ok
              \/ Replied("RemoveFailure")
        /\ Replied("SetFailure") => conn.client.exit = 0

\* a set command whose request was answered with SetFailure exited with 0
C24_Witness ==
    /\ Replied("SetFailure")
    /\ Decode(conn.request).cmd.tag = "Set"
    /\ conn.client.exit = 0

(***************************************************************************)
(* The ratio of redundant entries after a set.                             *)
(***************************************************************************)
\* 2 * redundant_entries <= index.len()
WithinRatio(st) == 2 * st.num_unnecessary_entries <= Cardinality(DOMAIN st.index)

\* C25 (ratio after a set): right after every set that returns success,
\* 2 * num_unnecessary_entries <= index.len(): either the ratio was at most
\* 0.5 or the compaction left the counter at zero.
C25_RatioAfterSet ==
    [][ (SetStep /\ last'.status = "ok") => WithinRatio(store') ]_vars

\* Second half: a set step of a store within the ratio leaves the store it
\* returns with within the ratio, whatever it returns.
SetKeepsRatio ==
    [][ (SetStep /\ proc' = "open" /\ WithinRatio(store)) => WithinRatio(store') ]_vars

(***************************************************************************)
(* The byte ranges of the index.                                           *)
(***************************************************************************)
\* The ranges [pos, pos + len) of two index entries share no byte.
Disjoint(cp1, cp2) == cp1.pos + cp1.len <= cp2.pos \/ cp2.pos + cp2.len <= cp1.pos

\* C26 (index ranges inside the log and disjoint): whenever an engine
\* instance holds the store, every range of the index ends at or before
\* the end of kvs.log, and the ranges of two distinct keys do not overlap.
C26_RangesInsideLog ==
    proc = "open" =>
        /\ \A k \in DOMAIN store.index :
              store.index[k].pos + store.index[k].len <= Len(disk.kvs_log.data)
        /\ \A k1, k2 \in DOMAIN store.index :
              k1 # k2 => Disjoint(store.index[k1], store.index[k2])

=============================================================================
